---- MODULE Spec2Model ----
(***************************************************************************)
(* Pomodoro session of the task manager: the zustand store's session       *)
(* operations (HomeScreen.tsx, store section) and the PomodoroTimer        *)
(* component that drives them (PomodoroTimer.tsx).                         *)
(*                                                                         *)
(* Three specifications share the session's state:                         *)
(*   SpecStore  the store's operations called directly, in any order;      *)
(*   Spec       the PomodoroTimer component: its buttons, dialog, task     *)
(*              selector, mount/unmount and the one-second interval;       *)
(*   SpecCycle  the component started from the store's initial state and   *)
(*              default settings, with the work sessions counted.          *)
(* Three more look at one part each:                                       *)
(*   SpecInterval  the interval callback and the effect that re-creates    *)
(*              it, with the render the callback closed over;              *)
(*   SpecSettings  the settings form's Save (TemplateList.tsx);            *)
(*   SpecProfile   the user profile service and its in-memory cache        *)
(*              (userService.ts).                                          *)
(***************************************************************************)
EXTENDS Integers, Sequences, FiniteSets, TLC

VARIABLES
  currentPomodoro,      \* store: {active, isBreak, timeRemaining, sessionId, currentSessionCount}
  pomodoroSettings,     \* store: durations (minutes), sessionsUntilLongBreak, two flags
  mounted,              \* the PomodoroTimer component is mounted
  capturedActive,       \* currentPomodoro.active as captured by the unmount effect's closure
  selectedTaskId,       \* component state
  interruptionNote,     \* component state
  showTaskSelector,     \* component state
  showInterruptionDialog, \* component state
  interruptionRecords,  \* records handed to the statistics collaborator
  lastOp,               \* history: name of the last operation
  lastArg,              \* history: its argument (task id, note), NoArg if none
  prev,                 \* history: currentPomodoro before the last operation
  pausedFrom,           \* history: currentPomodoro before a pause that is the last or
                        \*   (when the last operation is a resume) the previous operation
  pauseRun,             \* history: pauses made in a row up to now (at most 2 are counted)
  completedWork,        \* history (SpecCycle): work sessions completed since the first start
  breaksSkipped,        \* history (SpecCycle): some break since then was ended by Skip Break
  breaksRunOut,         \* history (SpecCycle): some break since then counted down to zero
  getCall,              \* a getUserProfile awaiting its remote fetch, NoGet if none
  updateCall,           \* an updateUserProfile / updateUserSettings in its retry loop
  tasks,                \* store: the task list
  dbTasks,              \* the rows of the tasks table, in the order of their ids
  deletedIds,           \* history: the ids the store's deleteTask has completed for
  tasksBefore,          \* history: the task list before the last task operation
  enteredBreak,         \* history (SpecCycle): the kind of break the last completed work
                        \*   session entered, NoBreak before the first
  intervalView,         \* the render the live interval's callback closed over, or NoInterval
  settingsForm,         \* the settings form's fields and switches, NoForm while not mounted
  memoryCache,          \* userService: uid -> cached profile, NoProfile where there is no entry
  cacheExpiry,          \* userService: uid -> expiry time (ms), NoExpiry where there is no entry
  now,                  \* Date.now(), in ms since the service was loaded
  remoteProfiles,       \* Firestore collection users: uid -> document, NoProfile if none
  returned,             \* history: what the last getUserProfile returned
  fetchOutcome,         \* history: outcome of the remote fetch of the last getUserProfile
  storedAt,             \* history: uid -> time the entry and its expiry were set, NoExpiry if never
  cacheBefore           \* history: the uid's <<entry, expiry, storedAt>> before the last service call

storeVars == <<currentPomodoro, pomodoroSettings>>
compVars  == <<mounted, capturedActive, selectedTaskId, interruptionNote,
               showTaskSelector, showInterruptionDialog>>
histVars  == <<lastOp, lastArg, prev, pausedFrom, pauseRun>>
cycleVars == <<completedWork, breaksSkipped, breaksRunOut, enteredBreak>>
profileVars == <<memoryCache, cacheExpiry, now, remoteProfiles,
                 returned, fetchOutcome, storedAt, cacheBefore>>
callVars == <<getCall, updateCall>>
taskVars == <<tasks, dbTasks, deletedIds, tasksBefore>>
\* What the three session specifications leave alone.
restVars  == <<intervalView, settingsForm, profileVars, callVars, taskVars>>
vars == <<currentPomodoro, pomodoroSettings, mounted, capturedActive, selectedTaskId,
          interruptionNote, showTaskSelector, showInterruptionDialog,
          interruptionRecords, lastOp, lastArg, prev, pausedFrom, pauseRun,
          completedWork, breaksSkipped, breaksRunOut, enteredBreak,
          intervalView, settingsForm, memoryCache, cacheExpiry, now, remoteProfiles,
          returned, fetchOutcome, storedAt, cacheBefore, getCall, updateCall,
          tasks, dbTasks, deletedIds, tasksBefore>>

----------------------------------------------------------------------------
(* Bounds of the model *)

MaxWorkMinutes == 2       \* workDuration ranges over 1..MaxWorkMinutes
MaxSessions == 2          \* sessionsUntilLongBreak ranges over 1..MaxSessions
MaxCompleted == 5         \* SpecCycle counts at most this many completed work sessions

(* Program constants *)

SecondsPerMinute == 60
MinWorkDuration == 1
MinShortBreak == 1
MinLongBreak == 5
MinSessions == 1
DefaultWorkDuration == 25
DefaultShortBreak == 5
DefaultLongBreak == 15
DefaultSessions == 4

NoTask == "null"          \* sessionId: null, selectedTaskId: null
NoArg == "none"
NoSnapshot ==             \* no session recorded: a value no session takes
  [active |-> FALSE, isBreak |-> FALSE, timeRemaining |-> -1,
   sessionId |-> NoTask, currentSessionCount |-> -1]
TaskIds == {"t1", "t2"}
Notes == {"", "interrupted"}
\* The initialTaskId prop at mount: absent, or a task (one stands for either).
InitialTaskIds == {NoTask, "t1"}

\* The settings form is not mounted.
NoForm == [visible |-> FALSE]

\* No interval is running (timerRef.current is null).
NoInterval == [currentPomodoro |-> NoSnapshot, selectedTaskId |-> NoTask]

----------------------------------------------------------------------------
(* The user profile service: constants and data *)

MaxClockSteps == 4        \* the clock is advanced at most this many times

CACHE_DURATION == 30 * 60 * 1000
MAX_RETRIES == 1
\* The clock moves in steps of ten minutes; a remote call takes no time on this scale.
ClockStep == 10 * 60 * 1000

Uids == {"u1", "u2"}
InvalidUid == ""          \* a uid that fails the `!uid` test
DisplayNames == {"a", "b"}
\* settings.theme of a profile; createUserProfile writes 'system'.
DefaultTheme == "system"
Themes == {"system", "dark"}
NoProfile == [uid |-> "null", displayName |-> "null", lastLogin |-> "null",
              theme |-> "null"]
NoExpiry == -1            \* Map.get of an absent key: undefined
\* lastLogin is a date, or the serverTimestamp() placeholder before the server
\* has resolved it.
Profile(uid, name, login) ==
  [uid |-> uid, displayName |-> name, lastLogin |-> login, theme |-> DefaultTheme]
\* What getUserProfile gives back to its caller: a profile, or null.
Null == NoProfile
\* No getUserProfile is awaiting; no update is in its loop.
NoGet == [uid |-> "null", cachedProfile |-> NoProfile]
NoUpdate == [kind |-> "none", uid |-> "null", data |-> "null", retries |-> 0]

\* The module as loaded: both maps empty.
CacheLoaded ==
  /\ memoryCache = [u \in Uids |-> NoProfile]
  /\ cacheExpiry = [u \in Uids |-> NoExpiry]
  /\ now = ClockStep
  /\ returned = Null
  /\ fetchOutcome = "none"
  /\ storedAt = [u \in Uids |-> NoExpiry]
  /\ cacheBefore = <<NoProfile, NoExpiry, NoExpiry>>
  /\ getCall = NoGet /\ updateCall = NoUpdate

\* The service loaded, nothing stored remotely.
ServiceLoaded == CacheLoaded /\ remoteProfiles = [u \in Uids |-> NoProfile]

\* What Firestore holds when the module is loaded: for each uid nothing, or
\* the profile an earlier run or another device has written.
RemoteChoices ==
  [Uids -> {NoProfile}] \cup
  {[u \in Uids |-> IF u \in have THEN Profile(u, name, "date") ELSE NoProfile] :
     have \in SUBSET Uids, name \in DisplayNames}

\* The store as created, over an empty tasks table: tasks: [].
TasksLoaded ==
  /\ tasks = <<>> /\ dbTasks = <<>> /\ deletedIds = {} /\ tasksBefore = <<>>

----------------------------------------------------------------------------
(* The store *)

InitialPomodoro ==
  [active |-> FALSE, isBreak |-> FALSE,
   timeRemaining |-> DefaultWorkDuration * SecondsPerMinute,
   sessionId |-> NoTask, currentSessionCount |-> 0]

DefaultSettings ==
  [workDuration |-> DefaultWorkDuration, shortBreakDuration |-> DefaultShortBreak,
   longBreakDuration |-> DefaultLongBreak, sessionsUntilLongBreak |-> DefaultSessions,
   autoStartNextSession |-> FALSE, autoStartBreaks |-> TRUE]

\* Settings within the documented bounds, cut down to the model's bounds.
\* autoStartBreaks is left at its default here; SpecCycle starts with either value.
SettingsChoices ==
  [workDuration : MinWorkDuration..MaxWorkMinutes,
   shortBreakDuration : {MinShortBreak},
   longBreakDuration : {MinLongBreak},
   sessionsUntilLongBreak : MinSessions..MaxSessions,
   autoStartNextSession : BOOLEAN, autoStartBreaks : {TRUE}]

\* Mutant: start binds the task and activates, and leaves the countdown as it was.
startPomodoro_KeepsTime(cp, ps, taskId) ==
  [cp EXCEPT !.active = TRUE, !.isBreak = FALSE, !.sessionId = taskId]

startPomodoro(cp, ps, taskId) ==
  [cp EXCEPT !.active = TRUE, !.isBreak = FALSE, !.sessionId = taskId,
             !.timeRemaining = ps.workDuration * SecondsPerMinute]

\* Mutant: pause toggles the active flag.
pausePomodoro_Toggles(cp) == [cp EXCEPT !.active = ~cp.active]

pausePomodoro(cp) == [cp EXCEPT !.active = FALSE]

\* Mutant: resume always resumes into the work phase.
resumePomodoro_LeavesBreak(cp) == [cp EXCEPT !.active = TRUE, !.isBreak = FALSE]

resumePomodoro(cp) == [cp EXCEPT !.active = TRUE]

\* Mutant: stop resets the countdown to the built-in 25 minutes.
stopPomodoro_DefaultTime(ps, logTime, reason) ==
  [active |-> FALSE, isBreak |-> FALSE,
   timeRemaining |-> DefaultWorkDuration * SecondsPerMinute,
   sessionId |-> NoTask, currentSessionCount |-> 0]

\* logTime and reason are accepted and not used.
stopPomodoro(ps, logTime, reason) ==
  [active |-> FALSE, isBreak |-> FALSE,
   timeRemaining |-> ps.workDuration * SecondsPerMinute,
   sessionId |-> NoTask, currentSessionCount |-> 0]

\* Mutant: the break is entered without loading its duration.
completePomodoro_KeepsCountdown(cp, ps) ==
  [cp EXCEPT !.isBreak = TRUE, !.active = TRUE,
             !.currentSessionCount =
                (cp.currentSessionCount + 1) % ps.sessionsUntilLongBreak]

completePomodoro(cp, ps) ==
  [cp EXCEPT !.isBreak = TRUE, !.active = TRUE,
             !.timeRemaining =
                IF cp.currentSessionCount >= ps.sessionsUntilLongBreak - 1
                  THEN ps.longBreakDuration * SecondsPerMinute
                  ELSE ps.shortBreakDuration * SecondsPerMinute,
             !.currentSessionCount =
                (cp.currentSessionCount + 1) % ps.sessionsUntilLongBreak]

skipBreak(cp, ps) ==
  [cp EXCEPT !.isBreak = FALSE, !.active = FALSE,
             !.timeRemaining = ps.workDuration * SecondsPerMinute]

\* The interval callback's decrement (useTaskStore.setState).
decrementTimer(cp) == [cp EXCEPT !.timeRemaining = cp.timeRemaining - 1]

----------------------------------------------------------------------------
(* The PomodoroTimer component's handlers, as functions of the store state *)
(* and of the values the render closed over.                               *)

handleSessionComplete(cp, ps) == completePomodoro(cp, ps)

\* The break whose duration completePomodoro loads for the session cp.
NoBreak == "none"
breakLoaded(cp, ps) ==
  IF cp.currentSessionCount >= ps.sessionsUntilLongBreak - 1
    THEN "Long Break" ELSE "Short Break"

\* Mutant: the end of a break never starts the next session.
handleBreakComplete_NeverRestarts(cp, ps, selected) == stopPomodoro(ps, FALSE, "")

handleBreakComplete(cp, ps, selected) ==
  LET stopped == stopPomodoro(ps, FALSE, "")
  IN  IF ps.autoStartNextSession /\ selected # NoTask
        THEN startPomodoro(stopped, ps, selected)
        ELSE stopped

handleSkipBreak(cp, ps, selected) ==
  LET skipped == skipBreak(cp, ps)
  IN  IF ~ps.autoStartNextSession /\ selected # NoTask
        THEN startPomodoro(skipped, ps, selected)
        ELSE skipped

\* Mutant: the phase ends one tick late, at zero.
tick_CompletesAtZero(cp, ps, selected) ==
  IF cp.timeRemaining < 1
    THEN IF cp.isBreak THEN handleBreakComplete(cp, ps, selected)
                       ELSE handleSessionComplete(cp, ps)
    ELSE decrementTimer(cp)

\* One firing of the interval callback.
tick(cp, ps, selected) ==
  IF cp.timeRemaining <= 1
    THEN IF cp.isBreak THEN handleBreakComplete(cp, ps, selected)
                       ELSE handleSessionComplete(cp, ps)
    ELSE decrementTimer(cp)

\* The interval callback created by the effect of the render `view`: the test
\* reads the render's currentPomodoro and isBreak, the handlers read the
\* render's selectedTaskId (and settings), the store's updaters read the store.
intervalCallback(view, cp, ps) ==
  IF view.currentPomodoro.timeRemaining <= 1
    THEN IF view.currentPomodoro.isBreak
           THEN handleBreakComplete(cp, ps, view.selectedTaskId)
           ELSE handleSessionComplete(cp, ps)
    ELSE decrementTimer(cp)

\* The effect's dependencies: [isActive, currentPomodoro.timeRemaining, isBreak].
effectDeps(cp) == <<cp.active, cp.timeRemaining, cp.isBreak>>

\* The effect with the render (cp, selected): the cleanup clears the interval
\* of the previous run, and a new one is set only while the session is active.
timerEffect(cp, selected) ==
  IF cp.active THEN [currentPomodoro |-> cp, selectedTaskId |-> selected]
               ELSE NoInterval

\* The title shown above the countdown.
timerTitle(cp, ps) ==
  IF cp.isBreak
    THEN IF cp.timeRemaining > ps.shortBreakDuration * SecondsPerMinute
           THEN "Long Break" ELSE "Short Break"
    ELSE "Work Session"

----------------------------------------------------------------------------
(* Phases of the session, read off the store's fields *)

IsIdle(cp)    == ~cp.active /\ ~cp.isBreak /\ cp.sessionId = NoTask
IsWorking(cp) == cp.active /\ ~cp.isBreak
IsOnBreak(cp) == cp.active /\ cp.isBreak

----------------------------------------------------------------------------
(* History bookkeeping: the last operation, its argument and the session   *)
(* before it.                                                              *)

PauseOps  == {"pausePomodoro", "handlePause"}
ResumeOps == {"resumePomodoro", "handleResume"}

Record(op, arg) ==
  /\ lastOp' = op
  /\ lastArg' = arg
  /\ prev' = currentPomodoro
  /\ pausedFrom' = IF op \in PauseOps THEN currentPomodoro
                   ELSE IF op \in ResumeOps /\ lastOp \in PauseOps THEN pausedFrom
                   ELSE NoSnapshot
  /\ pauseRun' = IF op \in PauseOps THEN (IF pauseRun >= 1 THEN 2 ELSE 1) ELSE 0

----------------------------------------------------------------------------
(* SpecStore: the store's operations called directly *)

\* autoStartNextSession is read by the component only: SpecStore leaves it at its default.
StoreSettingsChoices ==
  {s \in SettingsChoices : ~s.autoStartNextSession}

StoreInit ==
  /\ pomodoroSettings \in StoreSettingsChoices
  /\ currentPomodoro = stopPomodoro(pomodoroSettings, FALSE, "")
  /\ mounted = FALSE /\ capturedActive = FALSE
  /\ selectedTaskId = NoTask /\ interruptionNote = ""
  /\ showTaskSelector = FALSE /\ showInterruptionDialog = FALSE
  /\ interruptionRecords = {}
  /\ lastOp = "init" /\ lastArg = NoArg /\ prev = currentPomodoro
  /\ pausedFrom = NoSnapshot /\ pauseRun = 0
  /\ completedWork = 0 /\ breaksSkipped = FALSE /\ breaksRunOut = FALSE
  /\ enteredBreak = NoBreak /\ TasksLoaded
  /\ intervalView = NoInterval /\ settingsForm = NoForm /\ ServiceLoaded

StoreFrame == UNCHANGED <<compVars, interruptionRecords, cycleVars, restVars>>

StoreStart ==
  \E t \in TaskIds :
    /\ currentPomodoro' = startPomodoro(currentPomodoro, pomodoroSettings, t)
    /\ Record("startPomodoro", t)
    /\ UNCHANGED pomodoroSettings /\ StoreFrame

StorePause ==
  /\ currentPomodoro' = pausePomodoro(currentPomodoro)
  /\ Record("pausePomodoro", NoArg)
  /\ UNCHANGED pomodoroSettings /\ StoreFrame

StoreResume ==
  /\ currentPomodoro' = resumePomodoro(currentPomodoro)
  /\ Record("resumePomodoro", NoArg)
  /\ UNCHANGED pomodoroSettings /\ StoreFrame

StoreStop ==
  \E logTime \in BOOLEAN, reason \in Notes :
    /\ currentPomodoro' = stopPomodoro(pomodoroSettings, logTime, reason)
    /\ Record("stopPomodoro", <<logTime, reason>>)
    /\ UNCHANGED pomodoroSettings /\ StoreFrame

StoreComplete ==
  /\ currentPomodoro' = completePomodoro(currentPomodoro, pomodoroSettings)
  /\ Record("completePomodoro", NoArg)
  /\ UNCHANGED pomodoroSettings /\ StoreFrame

StoreSkipBreak ==
  /\ currentPomodoro' = skipBreak(currentPomodoro, pomodoroSettings)
  /\ Record("skipBreak", NoArg)
  /\ UNCHANGED pomodoroSettings /\ StoreFrame

\* The decrement is made only by the interval callback, on its else-branch.
StoreDecrement ==
  /\ currentPomodoro.active
  /\ currentPomodoro.timeRemaining > 1
  /\ currentPomodoro' = decrementTimer(currentPomodoro)
  /\ Record("decrement", NoArg)
  /\ UNCHANGED pomodoroSettings /\ StoreFrame

\* Mutant: new settings reload the countdown of a work phase at once.
StoreUpdateSettings_Retroactive ==
  \E settings \in StoreSettingsChoices :
    /\ pomodoroSettings' = settings
    /\ currentPomodoro' =
         IF currentPomodoro.isBreak THEN currentPomodoro
         ELSE [currentPomodoro EXCEPT
                 !.timeRemaining = settings.workDuration * SecondsPerMinute]
    /\ Record("updatePomodoroSettings", NoArg)
    /\ StoreFrame

StoreUpdateSettings ==
  \E settings \in StoreSettingsChoices :
    /\ pomodoroSettings' = settings
    /\ Record("updatePomodoroSettings", NoArg)
    /\ UNCHANGED currentPomodoro /\ StoreFrame

StoreNext ==
  \/ StoreStart \/ StorePause \/ StoreResume \/ StoreStop \/ StoreComplete
  \/ StoreSkipBreak \/ StoreDecrement \/ StoreUpdateSettings

SpecStore == StoreInit /\ [][StoreNext]_vars

----------------------------------------------------------------------------
(* Spec: the PomodoroTimer component driving the store *)

Init ==
  /\ pomodoroSettings \in SettingsChoices
  /\ currentPomodoro = stopPomodoro(pomodoroSettings, FALSE, "")
  /\ mounted = FALSE /\ capturedActive = FALSE
  /\ selectedTaskId = NoTask /\ interruptionNote = ""
  /\ showTaskSelector = FALSE /\ showInterruptionDialog = FALSE
  /\ interruptionRecords = {}
  /\ lastOp = "init" /\ lastArg = NoArg /\ prev = currentPomodoro
  /\ pausedFrom = NoSnapshot /\ pauseRun = 0
  /\ completedWork = 0 /\ breaksSkipped = FALSE /\ breaksRunOut = FALSE
  /\ enteredBreak = NoBreak /\ TasksLoaded
  /\ intervalView = NoInterval /\ settingsForm = NoForm /\ ServiceLoaded

\* The main buttons lie under the interruption dialog's modal overlay.
ButtonsReachable == mounted /\ ~showInterruptionDialog

\* First render: useState initial values; the unmount effect closes over this render.
MountStep ==
  \E initialTaskId \in InitialTaskIds :
    /\ ~mounted
    /\ mounted' = TRUE
    /\ capturedActive' = currentPomodoro.active
    /\ selectedTaskId' = initialTaskId
    /\ interruptionNote' = ""
    /\ showTaskSelector' = FALSE
    /\ showInterruptionDialog' = FALSE
    /\ Record("mount", initialTaskId)
    /\ UNCHANGED <<storeVars, interruptionRecords>>

\* Cleanup of the effects: the interval is cleared, and the session is stopped
\* when the session was inactive at the first render.
UnmountStep ==
  /\ mounted
  /\ mounted' = FALSE
  /\ currentPomodoro' = IF ~capturedActive
                          THEN stopPomodoro(pomodoroSettings, FALSE, "")
                          ELSE currentPomodoro
  /\ capturedActive' = FALSE
  /\ selectedTaskId' = NoTask
  /\ interruptionNote' = ""
  /\ showTaskSelector' = FALSE
  /\ showInterruptionDialog' = FALSE
  /\ Record("unmount", NoArg)
  /\ UNCHANGED <<pomodoroSettings, interruptionRecords>>

\* The interval exists while the rendered session is active.
TickStep ==
  /\ mounted
  /\ currentPomodoro.active
  /\ currentPomodoro' = tick(currentPomodoro, pomodoroSettings, selectedTaskId)
  /\ Record("tick", NoArg)
  /\ UNCHANGED <<pomodoroSettings, compVars, interruptionRecords>>

\* The Start button: shown when the session is inactive and has no sessionId.
HandleStartStep ==
  /\ ButtonsReachable
  /\ ~currentPomodoro.active
  /\ currentPomodoro.sessionId = NoTask
  /\ IF selectedTaskId = NoTask
       THEN /\ showTaskSelector' = TRUE
            /\ UNCHANGED currentPomodoro
       ELSE /\ currentPomodoro' =
                 startPomodoro(currentPomodoro, pomodoroSettings, selectedTaskId)
            /\ UNCHANGED showTaskSelector
  /\ Record("handleStart", selectedTaskId)
  /\ UNCHANGED <<pomodoroSettings, mounted, capturedActive, selectedTaskId,
                 interruptionNote, showInterruptionDialog, interruptionRecords>>

\* The Resume button: shown when the session is inactive and has a sessionId.
HandleResumeStep ==
  /\ ButtonsReachable
  /\ ~currentPomodoro.active
  /\ currentPomodoro.sessionId # NoTask
  /\ currentPomodoro' = resumePomodoro(currentPomodoro)
  /\ Record("handleResume", NoArg)
  /\ UNCHANGED <<pomodoroSettings, compVars, interruptionRecords>>

HandlePauseStep ==
  /\ ButtonsReachable
  /\ currentPomodoro.active
  /\ currentPomodoro' = pausePomodoro(currentPomodoro)
  /\ Record("handlePause", NoArg)
  /\ UNCHANGED <<pomodoroSettings, compVars, interruptionRecords>>

\* The Skip Break button: shown when active and on a break.
HandleSkipBreakStep ==
  /\ ButtonsReachable
  /\ currentPomodoro.active
  /\ currentPomodoro.isBreak
  /\ currentPomodoro' = handleSkipBreak(currentPomodoro, pomodoroSettings, selectedTaskId)
  /\ Record("handleSkipBreak", NoArg)
  /\ UNCHANGED <<pomodoroSettings, compVars, interruptionRecords>>

\* The Stop button: shown when active and not on a break; opens the dialog.
HandleStopStep ==
  /\ ButtonsReachable
  /\ currentPomodoro.active
  /\ ~currentPomodoro.isBreak
  /\ showInterruptionDialog' = TRUE
  /\ Record("handleStop", NoArg)
  /\ UNCHANGED <<storeVars, mounted, capturedActive, selectedTaskId,
                 interruptionNote, showTaskSelector, interruptionRecords>>

\* Cancel, or the modal's onRequestClose.
CancelStopStep ==
  /\ mounted
  /\ showInterruptionDialog
  /\ showInterruptionDialog' = FALSE
  /\ Record("cancelStop", NoArg)
  /\ UNCHANGED <<storeVars, mounted, capturedActive, selectedTaskId,
                 interruptionNote, showTaskSelector, interruptionRecords>>

\* The dialog's Stop Session button. The note is what the user typed into the
\* dialog's text input (setInterruptionNote) before pressing it; the handler
\* clears the input afterwards.
HandleConfirmStopStep ==
  \E note \in Notes :
    /\ mounted
    /\ showInterruptionDialog
    /\ currentPomodoro' = stopPomodoro(pomodoroSettings, TRUE, note)
    /\ interruptionNote' = ""
    /\ showInterruptionDialog' = FALSE
    /\ Record("handleConfirmStop", note)
    /\ UNCHANGED <<pomodoroSettings, mounted, capturedActive, selectedTaskId,
                   showTaskSelector, interruptionRecords>>

\* The task selector's opener is disabled while the session is active.
OpenTaskSelectorStep ==
  /\ ButtonsReachable
  /\ ~showTaskSelector
  /\ ~currentPomodoro.active
  /\ showTaskSelector' = TRUE
  /\ Record("openTaskSelector", NoArg)
  /\ UNCHANGED <<storeVars, mounted, capturedActive, selectedTaskId,
                 interruptionNote, showInterruptionDialog, interruptionRecords>>

CloseTaskSelectorStep ==
  /\ ButtonsReachable
  /\ showTaskSelector
  /\ showTaskSelector' = FALSE
  /\ Record("closeTaskSelector", NoArg)
  /\ UNCHANGED <<storeVars, mounted, capturedActive, selectedTaskId,
                 interruptionNote, showInterruptionDialog, interruptionRecords>>

HandleTaskSelectStep ==
  \E taskId \in TaskIds :
    /\ ButtonsReachable
    /\ showTaskSelector
    /\ selectedTaskId' = taskId
    /\ showTaskSelector' = FALSE
    /\ currentPomodoro' = IF ~currentPomodoro.active
                            THEN startPomodoro(currentPomodoro, pomodoroSettings, taskId)
                            ELSE currentPomodoro
    /\ Record("handleTaskSelect", taskId)
    /\ UNCHANGED <<pomodoroSettings, mounted, capturedActive, interruptionNote,
                   showInterruptionDialog, interruptionRecords>>

\* Saved from the settings form, a component of its own.
UpdatePomodoroSettingsStep ==
  \E settings \in SettingsChoices :
    /\ settings # pomodoroSettings
    /\ pomodoroSettings' = settings
    /\ Record("updatePomodoroSettings", NoArg)
    /\ UNCHANGED <<currentPomodoro, compVars, interruptionRecords>>

Mount == MountStep /\ UNCHANGED <<cycleVars, restVars>>
Unmount == UnmountStep /\ UNCHANGED <<cycleVars, restVars>>
Tick == TickStep /\ UNCHANGED <<cycleVars, restVars>>
HandleStart == HandleStartStep /\ UNCHANGED <<cycleVars, restVars>>
HandleResume == HandleResumeStep /\ UNCHANGED <<cycleVars, restVars>>
HandlePause == HandlePauseStep /\ UNCHANGED <<cycleVars, restVars>>
HandleSkipBreak == HandleSkipBreakStep /\ UNCHANGED <<cycleVars, restVars>>
HandleStop == HandleStopStep /\ UNCHANGED <<cycleVars, restVars>>
CancelStop == CancelStopStep /\ UNCHANGED <<cycleVars, restVars>>
HandleConfirmStop == HandleConfirmStopStep /\ UNCHANGED <<cycleVars, restVars>>
OpenTaskSelector == OpenTaskSelectorStep /\ UNCHANGED <<cycleVars, restVars>>
CloseTaskSelector == CloseTaskSelectorStep /\ UNCHANGED <<cycleVars, restVars>>
HandleTaskSelect == HandleTaskSelectStep /\ UNCHANGED <<cycleVars, restVars>>
UpdatePomodoroSettings == UpdatePomodoroSettingsStep /\ UNCHANGED <<cycleVars, restVars>>

Next ==
  \/ Mount \/ Unmount \/ Tick
  \/ HandleStart \/ HandleResume \/ HandlePause \/ HandleSkipBreak
  \/ HandleStop \/ CancelStop \/ HandleConfirmStop
  \/ OpenTaskSelector \/ CloseTaskSelector \/ HandleTaskSelect
  \/ UpdatePomodoroSettings

Spec == Init /\ [][Next]_vars

----------------------------------------------------------------------------
(* SpecCycle: the component on the store as constructed (default settings,  *)
(* autoStartBreaks on or off), driven by start, ticks and Skip Break, with  *)
(* the completed work sessions counted since the first start.               *)

\* The default settings, with autoStartBreaks as constructed or switched off.
CycleSettings ==
  {[DefaultSettings EXCEPT !.autoStartBreaks = b] : b \in BOOLEAN}

CycleInit ==
  /\ pomodoroSettings \in CycleSettings
  /\ currentPomodoro = InitialPomodoro
  /\ mounted = FALSE /\ capturedActive = FALSE
  /\ selectedTaskId = NoTask /\ interruptionNote = ""
  /\ showTaskSelector = FALSE /\ showInterruptionDialog = FALSE
  /\ interruptionRecords = {}
  /\ lastOp = "init" /\ lastArg = NoArg /\ prev = currentPomodoro
  /\ pausedFrom = NoSnapshot /\ pauseRun = 0
  /\ completedWork = 0 /\ breaksSkipped = FALSE /\ breaksRunOut = FALSE
  /\ enteredBreak = NoBreak /\ TasksLoaded
  /\ intervalView = NoInterval /\ settingsForm = NoForm /\ ServiceLoaded

WorkRunsOut  == IsWorking(currentPomodoro) /\ currentPomodoro.timeRemaining <= 1
BreakRunsOut == IsOnBreak(currentPomodoro) /\ currentPomodoro.timeRemaining <= 1

CycleMount == MountStep /\ UNCHANGED <<cycleVars, restVars>>
CycleStart == HandleStartStep /\ UNCHANGED <<cycleVars, restVars>>
CycleTaskSelect == HandleTaskSelectStep /\ UNCHANGED <<cycleVars, restVars>>

CycleTick ==
  /\ WorkRunsOut => completedWork < MaxCompleted
  /\ TickStep
  /\ completedWork' = IF WorkRunsOut THEN completedWork + 1 ELSE completedWork
  /\ breaksRunOut' = (breaksRunOut \/ BreakRunsOut)
  /\ enteredBreak' = IF WorkRunsOut
                       THEN breakLoaded(currentPomodoro, pomodoroSettings)
                       ELSE enteredBreak
  /\ UNCHANGED <<breaksSkipped, restVars>>

CycleSkipBreak ==
  /\ HandleSkipBreakStep
  /\ breaksSkipped' = TRUE
  /\ UNCHANGED <<completedWork, breaksRunOut, enteredBreak, restVars>>

CycleNext ==
  \/ CycleMount \/ CycleStart \/ CycleTaskSelect \/ CycleTick \/ CycleSkipBreak

SpecCycle == CycleInit /\ [][CycleNext]_vars

----------------------------------------------------------------------------
(* SpecInterval: the interval and the effect that owns it. A handler changes *)
(* the store at once; the render that follows and its effect (which clears  *)
(* the interval and sets the next one) come as a step of their own, and the *)
(* interval that is still set may fire in between. The settings are not     *)
(* changed here, so the render's settings are the store's.                  *)

IntervalInit == Init

\* The dependencies changed since the effect last ran (it last ran with an
\* inactive session when no interval is set).
EffectPending ==
  IF intervalView = NoInterval
    THEN currentPomodoro.active
    ELSE effectDeps(intervalView.currentPomodoro) # effectDeps(currentPomodoro)

IntervalFrame == UNCHANGED <<intervalView, settingsForm, cycleVars, profileVars, callVars, taskVars>>

IntervalMount == MountStep /\ IntervalFrame
IntervalStart == HandleStartStep /\ IntervalFrame
IntervalTaskSelect == HandleTaskSelectStep /\ IntervalFrame
IntervalPause == HandlePauseStep /\ IntervalFrame
IntervalResume == HandleResumeStep /\ IntervalFrame
IntervalSkipBreak == HandleSkipBreakStep /\ IntervalFrame
IntervalStop == HandleStopStep /\ IntervalFrame
IntervalCancelStop == CancelStopStep /\ IntervalFrame
IntervalConfirmStop == HandleConfirmStopStep /\ IntervalFrame

\* The render after a store change, and its effect.
RunEffect ==
  /\ mounted
  /\ EffectPending
  /\ intervalView' = timerEffect(currentPomodoro, selectedTaskId)
  /\ Record("effect", NoArg)
  /\ UNCHANGED <<storeVars, compVars, interruptionRecords, cycleVars,
                 settingsForm, profileVars, callVars, taskVars>>

\* The interval fires. Its callback changes the store, and the render and
\* effect that follow are done well before the next firing a second later.
\* The step records the operation the callback was overtaken by (the last
\* one, whose effect is still pending), NoArg if its view is the store's.
IntervalTick ==
  /\ mounted
  /\ intervalView # NoInterval
  /\ LET after == intervalCallback(intervalView, currentPomodoro, pomodoroSettings)
     IN  /\ currentPomodoro' = after
         /\ intervalView' =
              IF effectDeps(after) # effectDeps(intervalView.currentPomodoro)
                THEN timerEffect(after, selectedTaskId)
                ELSE intervalView
  /\ Record("tick", IF EffectPending THEN lastOp ELSE NoArg)
  /\ UNCHANGED <<pomodoroSettings, compVars, interruptionRecords, cycleVars,
                 settingsForm, profileVars, callVars, taskVars>>

IntervalNext ==
  \/ IntervalMount \/ IntervalStart \/ IntervalTaskSelect
  \/ IntervalPause \/ IntervalResume \/ IntervalSkipBreak
  \/ IntervalStop \/ IntervalCancelStop \/ IntervalConfirmStop
  \/ RunEffect \/ IntervalTick

SpecInterval == IntervalInit /\ [][IntervalNext]_vars

----------------------------------------------------------------------------
(* SpecSettings: the settings form (PomodoroSettings in TemplateList.tsx).   *)
(* A text field holds a string of digits, here a sequence over 0..9; Save   *)
(* parses the four fields, falls back to a default, clamps and stores.      *)

Margin == 1               \* numbers typed lie within Margin of a field's limits

MaxWorkDuration == 120
MaxShortBreak == 30
MaxLongBreak == 60
MaxSessionsUntilLongBreak == 10
WorkMaxLength == 3        \* maxLength of the work duration field
OtherMaxLength == 2       \* maxLength of the other three fields
Radix == 10
NaN == -1                 \* parseInt of a string without a leading digit

RECURSIVE toString(_)
toString(n) ==
  IF n < Radix THEN <<n>> ELSE Append(toString(n \div Radix), n % Radix)

RECURSIVE digitsValue(_)
digitsValue(text) ==
  IF text = <<>> THEN 0
  ELSE digitsValue(SubSeq(text, 1, Len(text) - 1)) * Radix + text[Len(text)]

\* parseInt(text, 10) of a string of digits.
parseInt(text) == IF text = <<>> THEN NaN ELSE digitsValue(text)

\* n || fallback: NaN and 0 are falsy.
orDefault(n, fallback) == IF n = NaN \/ n = 0 THEN fallback ELSE n

\* Math.max(lo, Math.min(hi, n))
clamp(lo, hi, n) ==
  LET least == IF hi < n THEN hi ELSE n
  IN  IF lo > least THEN lo ELSE least

handleSave(form) ==
  [workDuration |->
     clamp(MinWorkDuration, MaxWorkDuration,
           orDefault(parseInt(form.workDuration), DefaultWorkDuration)),
   shortBreakDuration |->
     clamp(MinShortBreak, MaxShortBreak,
           orDefault(parseInt(form.shortBreakDuration), DefaultShortBreak)),
   longBreakDuration |->
     clamp(MinLongBreak, MaxLongBreak,
           orDefault(parseInt(form.longBreakDuration), DefaultLongBreak)),
   sessionsUntilLongBreak |->
     clamp(MinSessions, MaxSessionsUntilLongBreak,
           orDefault(parseInt(form.sessionsUntilLongBreak), DefaultSessions)),
   autoStartNextSession |-> form.autoStartNextSession,
   autoStartBreaks |-> form.autoStartBreaks]

\* The effect that fills the form from the store (on a change of the settings
\* or of isVisible).
formOf(ps, visible) ==
  [workDuration |-> toString(ps.workDuration),
   shortBreakDuration |-> toString(ps.shortBreakDuration),
   longBreakDuration |-> toString(ps.longBreakDuration),
   sessionsUntilLongBreak |-> toString(ps.sessionsUntilLongBreak),
   autoStartNextSession |-> ps.autoStartNextSession,
   autoStartBreaks |-> ps.autoStartBreaks,
   visible |-> visible]

\* The largest number a field of maxLength digits takes (all nines).
RECURSIVE largestTyped(_)
largestTyped(maxLength) ==
  IF maxLength = 0 THEN 0 ELSE largestTyped(maxLength - 1) * Radix + (Radix - 1)

\* What is typed into a field with limits lo..hi: nothing, zero, a number near
\* one of the limits (also with a leading zero), or the largest the field takes.
FieldTexts(lo, hi, maxLength) ==
  LET numbers == {n \in ((lo - Margin) .. (lo + Margin)) \cup
                         ((hi - Margin) .. (hi + Margin)) \cup
                         {0, largestTyped(maxLength)} : n >= 0}
      texts == {toString(n) : n \in numbers} \cup
               {<<0>> \o toString(n) : n \in numbers} \cup {<<>>}
  IN  {t \in texts : Len(t) <= maxLength}

\* The form as the user has filled it in before pressing Save.
FormChoices ==
  [workDuration : FieldTexts(MinWorkDuration, MaxWorkDuration, WorkMaxLength),
   shortBreakDuration : FieldTexts(MinShortBreak, MaxShortBreak, OtherMaxLength),
   longBreakDuration : FieldTexts(MinLongBreak, MaxLongBreak, OtherMaxLength),
   sessionsUntilLongBreak :
     FieldTexts(MinSessions, MaxSessionsUntilLongBreak, OtherMaxLength),
   autoStartNextSession : BOOLEAN, autoStartBreaks : BOOLEAN,
   visible : {TRUE}]

\* The store as constructed, the form open and filled in.
SettingsInit ==
  /\ pomodoroSettings = DefaultSettings
  /\ currentPomodoro = InitialPomodoro
  /\ mounted = FALSE /\ capturedActive = FALSE
  /\ selectedTaskId = NoTask /\ interruptionNote = ""
  /\ showTaskSelector = FALSE /\ showInterruptionDialog = FALSE
  /\ interruptionRecords = {}
  /\ lastOp = "init" /\ lastArg = NoArg /\ prev = currentPomodoro
  /\ pausedFrom = NoSnapshot /\ pauseRun = 0
  /\ completedWork = 0 /\ breaksSkipped = FALSE /\ breaksRunOut = FALSE
  /\ enteredBreak = NoBreak /\ TasksLoaded
  /\ intervalView = NoInterval /\ ServiceLoaded
  /\ settingsForm \in FormChoices

SettingsFrame ==
  UNCHANGED <<currentPomodoro, compVars, interruptionRecords, cycleVars,
              intervalView, profileVars, callVars, taskVars>>

\* Save: the settings are stored and onClose hides the form; the effect then
\* refills the fields from the store. The step records what was in the form.
SaveSettings ==
  /\ settingsForm.visible
  /\ pomodoroSettings' = handleSave(settingsForm)
  /\ settingsForm' = formOf(pomodoroSettings', FALSE)
  /\ Record("handleSave", settingsForm)
  /\ SettingsFrame

\* The form is shown again, filled from the store.
OpenSettings ==
  /\ ~settingsForm.visible
  /\ settingsForm' = formOf(pomodoroSettings, TRUE)
  /\ Record("openSettings", NoArg)
  /\ UNCHANGED pomodoroSettings /\ SettingsFrame

SettingsNext == SaveSettings \/ OpenSettings

SpecSettings == SettingsInit /\ [][SettingsNext]_vars

----------------------------------------------------------------------------
(* SpecProfile: the user profile service (userService.ts). Each call is one *)
(* step; what the remote call does (answers, throws, times out) is chosen   *)
(* with the step.                                                           *)

\* Mutant: an entry is still valid at the instant of its expiry.
isCacheValid_Inclusive(expiry, t) ==
  expiry # NoExpiry /\ expiry # 0 /\ t <= expiry

\* expiry ? Date.now() < expiry : false
isCacheValid(expiry, t) ==
  expiry # NoExpiry /\ expiry # 0 /\ t < expiry

\* getDoc answers, throws, or loses the race against the 5 second timer.
FetchOutcomes == {"ok", "throws", "timeout"}
\* setDoc / updateDoc succeed, fail with code unavailable or
\* failed-precondition, or fail otherwise.
WriteOutcomes == {"ok", "offline", "error"}

\* Mutant: a failed fetch gives back a default guest profile.
getUserProfile_GuestOnFailure(uid, cache, expiry, t, outcome, remote) ==
  LET cachedProfile == IF uid \in Uids THEN cache[uid] ELSE NoProfile
      unchanged(result, fetch) ==
        [returned |-> result, memoryCache |-> cache, cacheExpiry |-> expiry,
         fetchOutcome |-> fetch, stored |-> FALSE]
  IN  IF uid = InvalidUid THEN unchanged(Null, "none")
      ELSE IF cachedProfile # NoProfile /\ isCacheValid(expiry[uid], t)
        THEN unchanged(cachedProfile, "none")
      ELSE IF outcome = "ok" /\ remote[uid] # NoProfile
        THEN [returned |-> remote[uid],
              memoryCache |-> [cache EXCEPT ![uid] = remote[uid]],
              cacheExpiry |-> [expiry EXCEPT ![uid] = t + CACHE_DURATION],
              fetchOutcome |-> "found", stored |-> TRUE]
      ELSE IF outcome = "ok" THEN unchanged(cachedProfile, "missing")
      ELSE unchanged(Profile(uid, "Guest User", "date"), outcome)

\* The result of getUserProfile(uid): what it returns, the two maps after it,
\* how the remote fetch went ("none": not made) and whether an entry was set.
\* A null cachedProfile is returned as null.
getUserProfile(uid, cache, expiry, t, outcome, remote) ==
  LET cachedProfile == IF uid \in Uids THEN cache[uid] ELSE NoProfile
      unchanged(result, fetch) ==
        [returned |-> result, memoryCache |-> cache, cacheExpiry |-> expiry,
         fetchOutcome |-> fetch, stored |-> FALSE]
  IN  IF uid = InvalidUid THEN unchanged(Null, "none")
      ELSE IF cachedProfile # NoProfile /\ isCacheValid(expiry[uid], t)
        THEN unchanged(cachedProfile, "none")
      ELSE IF outcome = "ok" /\ remote[uid] # NoProfile
        THEN [returned |-> remote[uid],
              memoryCache |-> [cache EXCEPT ![uid] = remote[uid]],
              cacheExpiry |-> [expiry EXCEPT ![uid] = t + CACHE_DURATION],
              fetchOutcome |-> "found", stored |-> TRUE]
      ELSE IF outcome = "ok" THEN unchanged(cachedProfile, "missing")
      ELSE unchanged(cachedProfile, outcome)

\* The session and the settings as constructed; the service as loaded, over
\* what Firestore holds already.
ProfileInit ==
  /\ pomodoroSettings = DefaultSettings
  /\ currentPomodoro = InitialPomodoro
  /\ mounted = FALSE /\ capturedActive = FALSE
  /\ selectedTaskId = NoTask /\ interruptionNote = ""
  /\ showTaskSelector = FALSE /\ showInterruptionDialog = FALSE
  /\ interruptionRecords = {}
  /\ lastOp = "init" /\ lastArg = NoArg /\ prev = currentPomodoro
  /\ pausedFrom = NoSnapshot /\ pauseRun = 0
  /\ completedWork = 0 /\ breaksSkipped = FALSE /\ breaksRunOut = FALSE
  /\ enteredBreak = NoBreak /\ TasksLoaded
  /\ intervalView = NoInterval /\ settingsForm = NoForm
  /\ CacheLoaded
  /\ remoteProfiles \in RemoteChoices

ProfileFrame ==
  UNCHANGED <<storeVars, compVars, interruptionRecords, cycleVars,
              intervalView, settingsForm, callVars, taskVars>>

\* The uid's entry, expiry and store time before a call.
EntryOf(uid) ==
  IF uid \in Uids THEN <<memoryCache[uid], cacheExpiry[uid], storedAt[uid]>>
                  ELSE <<NoProfile, NoExpiry, NoExpiry>>

GetUserProfile ==
  \E uid \in Uids \cup {InvalidUid}, outcome \in FetchOutcomes :
    LET got == getUserProfile(uid, memoryCache, cacheExpiry, now, outcome,
                              remoteProfiles)
    IN  /\ memoryCache' = got.memoryCache
        /\ cacheExpiry' = got.cacheExpiry
        /\ returned' = got.returned
        /\ fetchOutcome' = got.fetchOutcome
        /\ storedAt' = IF got.stored THEN [storedAt EXCEPT ![uid] = now] ELSE storedAt
        /\ cacheBefore' = EntryOf(uid)
        /\ Record("getUserProfile", uid)
        /\ UNCHANGED <<now, remoteProfiles>> /\ ProfileFrame

\* createUserProfile(user): setDoc with merge, then both maps are set; also
\* when the write fails as offline.
CreateUserProfile ==
  \E uid \in Uids, name \in DisplayNames, outcome \in WriteOutcomes :
    LET userProfile == Profile(uid, name, "date")
    IN  /\ remoteProfiles' = IF outcome = "ok"
                               THEN [remoteProfiles EXCEPT ![uid] = userProfile]
                               ELSE remoteProfiles
        /\ IF outcome \in {"ok", "offline"}
             THEN /\ memoryCache' = [memoryCache EXCEPT ![uid] = userProfile]
                  /\ cacheExpiry' = [cacheExpiry EXCEPT ![uid] = now + CACHE_DURATION]
                  /\ storedAt' = [storedAt EXCEPT ![uid] = now]
             ELSE UNCHANGED <<memoryCache, cacheExpiry, storedAt>>
        /\ returned' = Null /\ fetchOutcome' = "none"
        /\ cacheBefore' = EntryOf(uid)
        /\ Record("createUserProfile", uid)
        /\ UNCHANGED now /\ ProfileFrame

\* updateUserProfile(uid, {displayName}): at most MAX_RETRIES attempts, of
\* which the first that does not fail with another error decides. updateDoc
\* succeeds only on an existing document. The cache entry is merged with the
\* data when there is one; lastLogin is the serverTimestamp() placeholder
\* there after a successful write.
UpdateUserProfile ==
  \E uid \in Uids, name \in DisplayNames,
     outcomes \in [1 .. MAX_RETRIES -> WriteOutcomes] :
    LET decisive == {i \in 1 .. MAX_RETRIES : outcomes[i] # "error"}
        outcome == IF decisive = {} THEN "error"
                   ELSE outcomes[CHOOSE i \in decisive : \A j \in decisive : i <= j]
        currentProfile == memoryCache[uid]
    IN  /\ outcome = "ok" => remoteProfiles[uid] # NoProfile
        /\ remoteProfiles' =
             IF outcome = "ok"
               THEN [remoteProfiles EXCEPT ![uid].displayName = name,
                                           ![uid].lastLogin = "date"]
               ELSE remoteProfiles
        /\ memoryCache' =
             IF outcome = "error" \/ currentProfile = NoProfile THEN memoryCache
             ELSE IF outcome = "ok"
               THEN [memoryCache EXCEPT ![uid].displayName = name,
                                        ![uid].lastLogin = "serverTimestamp"]
               ELSE [memoryCache EXCEPT ![uid] = [currentProfile EXCEPT !.displayName = name]]
        /\ returned' = Null /\ fetchOutcome' = "none"
        /\ cacheBefore' = EntryOf(uid)
        /\ Record("updateUserProfile", uid)
        /\ UNCHANGED <<cacheExpiry, storedAt, now>> /\ ProfileFrame

\* Time passes.
AdvanceClock ==
  /\ now < (MaxClockSteps + 1) * ClockStep
  /\ now' = now + ClockStep
  /\ returned' = Null /\ fetchOutcome' = "none"
  /\ cacheBefore' = <<NoProfile, NoExpiry, NoExpiry>>
  /\ Record("clock", NoArg)
  /\ UNCHANGED <<memoryCache, cacheExpiry, remoteProfiles, storedAt>> /\ ProfileFrame

ProfileNext ==
  \/ GetUserProfile \/ CreateUserProfile \/ UpdateUserProfile \/ AdvanceClock

SpecProfile == ProfileInit /\ [][ProfileNext]_vars

----------------------------------------------------------------------------
(* SpecCalls: the profile service with its calls in flight. A call runs up *)
(* to an await, other calls run while it waits, and it goes on when the    *)
(* awaited promise settles. getUserProfile reads the cache before it       *)
(* awaits the fetch; the update functions await at every updateDoc.        *)

\* The profile screen reads and updates the profile of the user signed in.
SignedIn == "u1"
UpdateKinds == {"updateUserProfile", "updateUserSettings"}
\* What an update call is given: a displayName, or a settings.theme.
UpdateData(kind) == IF kind = "updateUserProfile" THEN DisplayNames ELSE Themes

\* Mutant: the fetched profile is cached without an expiry.
resumeGetUserProfile_NoExpiry(call, cache, expiry, t, outcome, remote) ==
  IF outcome = "ok" /\ remote[call.uid] # NoProfile
    THEN [returned |-> remote[call.uid],
          memoryCache |-> [cache EXCEPT ![call.uid] = remote[call.uid]],
          cacheExpiry |-> expiry, fetchOutcome |-> "found", stored |-> TRUE]
    ELSE [returned |-> call.cachedProfile, memoryCache |-> cache,
          cacheExpiry |-> expiry,
          fetchOutcome |-> IF outcome = "ok" THEN "missing" ELSE outcome,
          stored |-> FALSE]

\* getUserProfile after its await: the call holds the cachedProfile it read
\* before the await.
resumeGetUserProfile(call, cache, expiry, t, outcome, remote) ==
  LET unchanged(fetch) ==
        [returned |-> call.cachedProfile, memoryCache |-> cache,
         cacheExpiry |-> expiry, fetchOutcome |-> fetch, stored |-> FALSE]
  IN  IF outcome = "ok" /\ remote[call.uid] # NoProfile
        THEN [returned |-> remote[call.uid],
              memoryCache |-> [cache EXCEPT ![call.uid] = remote[call.uid]],
              cacheExpiry |-> [expiry EXCEPT ![call.uid] = t + CACHE_DURATION],
              fetchOutcome |-> "found", stored |-> TRUE]
      ELSE IF outcome = "ok" THEN unchanged("missing")
      ELSE unchanged(outcome)

\* data merged into a profile: {...currentProfile, ...data} for a profile
\* update, {...currentProfile, settings: {...settings, ...data}} for settings.
merged(profile, kind, data) ==
  IF kind = "updateUserProfile" THEN [profile EXCEPT !.displayName = data]
                                ELSE [profile EXCEPT !.theme = data]

\* Mutant: a failed write that is not offline is merged into the cache too.
updateAttempt_CachesOnError(call, cache, remote, outcome) ==
  LET currentProfile == cache[call.uid]
      local == merged(currentProfile, call.kind, call.data)
      retries == call.retries + 1
  IN  [memoryCache |-> IF currentProfile # NoProfile
                         THEN [cache EXCEPT ![call.uid] = local] ELSE cache,
       remoteProfiles |-> remote,
       done |-> outcome # "error" \/ ~(retries < MAX_RETRIES),
       raised |-> FALSE,
       retries |-> IF outcome = "error" THEN retries ELSE call.retries]

\* Mutant: the cache is set without looking for an entry first.
updateAttempt_CreatesEntry(call, cache, remote, outcome) ==
  LET local == merged(Profile(call.uid, "Guest User", "date"), call.kind, call.data)
      retries == call.retries + 1
  IN  [memoryCache |-> IF outcome = "error" THEN cache
                       ELSE [cache EXCEPT ![call.uid] =
                               IF @ = NoProfile THEN local
                               ELSE merged(@, call.kind, call.data)],
       remoteProfiles |-> remote,
       done |-> outcome # "error" \/ ~(retries < MAX_RETRIES),
       raised |-> FALSE,
       retries |-> IF outcome = "error" THEN retries ELSE call.retries]

\* One pass of the retry loop of updateUserProfile / updateUserSettings, with
\* the outcome of its updateDoc: the cache and the remote documents after it,
\* whether the call is over and whether it has thrown, and retries. A profile
\* update writes lastLogin: serverTimestamp() with the data; in the cache the
\* placeholder stays, the server resolves it to a date.
updateAttempt(call, cache, remote, outcome) ==
  LET currentProfile == cache[call.uid]
      local == merged(currentProfile, call.kind, call.data)
      stamped == IF call.kind = "updateUserProfile"
                   THEN [local EXCEPT !.lastLogin = "serverTimestamp"] ELSE local
      written == merged(remote[call.uid], call.kind, call.data)
      retries == call.retries + 1
  IN  IF outcome = "ok"
        THEN [memoryCache |-> IF currentProfile # NoProfile
                                THEN [cache EXCEPT ![call.uid] = stamped] ELSE cache,
              remoteProfiles |-> [remote EXCEPT ![call.uid] = written],
              done |-> TRUE, raised |-> FALSE, retries |-> call.retries]
      ELSE IF outcome = "offline"
        THEN [memoryCache |-> IF currentProfile # NoProfile
                                THEN [cache EXCEPT ![call.uid] = local] ELSE cache,
              remoteProfiles |-> remote,
              done |-> TRUE, raised |-> FALSE, retries |-> call.retries]
      ELSE [memoryCache |-> cache, remoteProfiles |-> remote,
            done |-> ~(retries < MAX_RETRIES), raised |-> FALSE,
            retries |-> retries]

CallsFrame ==
  UNCHANGED <<storeVars, compVars, interruptionRecords, cycleVars,
              intervalView, settingsForm, taskVars>>
\* History of a step that leaves a call waiting: nothing has returned.
Awaiting ==
  /\ returned' = Null /\ fetchOutcome' = "none"
  /\ cacheBefore' = <<NoProfile, NoExpiry, NoExpiry>>
  /\ Record("await", NoArg)

\* getUserProfile(uid) up to its first await: a valid entry is returned at
\* once, otherwise the call waits for the fetch with the entry it has read.
BeginGet ==
  \E uid \in {SignedIn} :
    LET cachedProfile == memoryCache[uid]
    IN  /\ getCall = NoGet
        /\ IF cachedProfile # NoProfile /\ isCacheValid(cacheExpiry[uid], now)
             THEN /\ returned' = cachedProfile
                  /\ fetchOutcome' = "none"
                  /\ cacheBefore' = EntryOf(uid)
                  /\ Record("getUserProfile", uid)
                  /\ UNCHANGED getCall
             ELSE /\ getCall' = [uid |-> uid, cachedProfile |-> cachedProfile]
                  /\ Awaiting
        /\ UNCHANGED <<memoryCache, cacheExpiry, storedAt, now, remoteProfiles,
                       updateCall>>
        /\ CallsFrame

\* The fetch settles and getUserProfile returns.
EndGet ==
  \E outcome \in FetchOutcomes :
    LET got == resumeGetUserProfile(getCall, memoryCache, cacheExpiry, now,
                                    outcome, remoteProfiles)
    IN  /\ getCall # NoGet
        /\ getCall' = NoGet
        /\ memoryCache' = got.memoryCache
        /\ cacheExpiry' = got.cacheExpiry
        /\ returned' = got.returned
        /\ fetchOutcome' = got.fetchOutcome
        /\ storedAt' = IF got.stored THEN [storedAt EXCEPT ![getCall.uid] = now]
                                     ELSE storedAt
        /\ cacheBefore' = EntryOf(getCall.uid)
        /\ Record("getUserProfile", getCall.uid)
        /\ UNCHANGED <<now, remoteProfiles, updateCall>> /\ CallsFrame

\* updateUserProfile(uid, {displayName}) / updateUserSettings(uid, {theme})
\* up to the loop: retries = 0.
BeginUpdate ==
  \E kind \in UpdateKinds, uid \in {SignedIn} :
    \E data \in UpdateData(kind) :
      /\ updateCall = NoUpdate
      /\ updateCall' = [kind |-> kind, uid |-> uid, data |-> data, retries |-> 0]
      /\ Awaiting
      /\ UNCHANGED <<memoryCache, cacheExpiry, storedAt, now, remoteProfiles,
                     getCall>>
      /\ CallsFrame

\* One updateDoc settles. It succeeds only on an existing document. The call
\* returns, or goes round the loop once more.
AttemptUpdate ==
  \E outcome \in WriteOutcomes :
    LET did == updateAttempt(updateCall, memoryCache, remoteProfiles, outcome)
    IN  /\ updateCall # NoUpdate
        /\ updateCall.retries < MAX_RETRIES
        /\ outcome = "ok" => remoteProfiles[updateCall.uid] # NoProfile
        /\ memoryCache' = did.memoryCache
        /\ remoteProfiles' = did.remoteProfiles
        /\ IF did.done
             THEN /\ updateCall' = NoUpdate
                  /\ returned' = Null /\ fetchOutcome' = "none"
                  /\ cacheBefore' = EntryOf(updateCall.uid)
                  /\ Record(updateCall.kind,
                            [uid |-> updateCall.uid, outcome |-> outcome,
                             attempts |-> updateCall.retries + 1,
                             raised |-> did.raised])
             ELSE /\ updateCall' = [updateCall EXCEPT !.retries = did.retries]
                  /\ Awaiting
        /\ UNCHANGED <<cacheExpiry, storedAt, now, getCall>>
        /\ CallsFrame

\* Time passes while no call is waiting: long enough for every entry stored
\* before to expire.
CallsClock ==
  /\ getCall = NoGet /\ updateCall = NoUpdate
  /\ now + CACHE_DURATION <= (MaxClockSteps + 1) * ClockStep
  /\ now' = now + CACHE_DURATION
  /\ Awaiting
  /\ UNCHANGED <<memoryCache, cacheExpiry, storedAt, remoteProfiles, callVars>>
  /\ CallsFrame

CallsNext ==
  \/ BeginGet \/ EndGet \/ BeginUpdate \/ AttemptUpdate
  \/ CreateUserProfile \/ CallsClock

SpecCalls == ProfileInit /\ [][CallsNext]_vars

----------------------------------------------------------------------------
(* SpecTasks: the store's task list over the tasks table. A task is its id  *)
(* and its completed flag; the table's rows are kept in the order of their  *)
(* ids, which stands for the ORDER BY of getTasks. Each operation runs to   *)
(* its end before the next.                                                 *)

MaxTaskId == 2            \* update, mark and delete are called for ids 1..MaxTaskId

\* An entry of the list that is not a task: the boolean true, whose id is
\* undefined (0 is no row's id).
NotATask == [isTask |-> FALSE, id |-> 0, completed |-> TRUE]

\* The rows createDefaultTasks inserts into the empty table.
DefaultTasks == [i \in 1 .. 5 |-> [isTask |-> TRUE, id |-> i, completed |-> FALSE]]

\* The store's updateTask(task): taskRepository.updateTask runs the UPDATE
\* and gives rowsAffected > 0; when that is true the store maps the entry
\* with the task's id to it.
updateTask(list, rows, task, outcome) ==
  LET updatedTask == task.id \in DOMAIN rows
  IN  IF outcome = "throws"
        THEN [tasks |-> list, dbTasks |-> rows, updated |-> FALSE]
        ELSE [tasks |-> IF updatedTask
                          THEN [i \in DOMAIN list |->
                                  IF list[i].id = task.id THEN NotATask ELSE list[i]]
                          ELSE list,
              dbTasks |-> IF updatedTask
                            THEN [rows EXCEPT ![task.id].completed = task.completed]
                            ELSE rows,
              updated |-> updatedTask]

TasksFrame ==
  UNCHANGED <<pomodoroSettings, compVars, interruptionRecords, cycleVars,
              intervalView, settingsForm, profileVars, callVars>>

\* fetchTasks() without a filter: an empty table gets the default tasks
\* first, then the list is what getTasks reads.
FetchTasks ==
  /\ dbTasks' = IF dbTasks = <<>> THEN DefaultTasks ELSE dbTasks
  /\ tasks' = dbTasks'
  /\ tasksBefore' = tasks
  /\ Record("fetchTasks", NoArg)
  /\ UNCHANGED <<currentPomodoro, deletedIds>> /\ TasksFrame

\* updateTask(task) called with a task object, as the task form does.
UpdateTask ==
  \E id \in 1 .. MaxTaskId, completed \in BOOLEAN, outcome \in {"ok", "throws"} :
    LET task == [isTask |-> TRUE, id |-> id, completed |-> completed]
        did == updateTask(tasks, dbTasks, task, outcome)
    IN  /\ tasks' = did.tasks
        /\ dbTasks' = did.dbTasks
        /\ tasksBefore' = tasks
        /\ Record("updateTask", [id |-> id, completed |-> completed,
                                 updated |-> did.updated])
        /\ UNCHANGED <<currentPomodoro, deletedIds>> /\ TasksFrame

\* markTaskAsCompleted(id) / markTaskAsInProgress(id): the task is looked up
\* in the list by its id; without one nothing is done.
MarkTask ==
  \E id \in 1 .. MaxTaskId, completed \in BOOLEAN, outcome \in {"ok", "throws"} :
    LET found == {i \in DOMAIN tasks : tasks[i].id = id}
        task == [tasks[CHOOSE i \in found : TRUE] EXCEPT !.completed = completed]
        did == IF found = {}
                 THEN [tasks |-> tasks, dbTasks |-> dbTasks, updated |-> FALSE]
                 ELSE updateTask(tasks, dbTasks, task, outcome)
    IN  /\ tasks' = did.tasks
        /\ dbTasks' = did.dbTasks
        /\ tasksBefore' = tasks
        /\ Record(IF completed THEN "markTaskAsCompleted" ELSE "markTaskAsInProgress",
                  [id |-> id, completed |-> completed, updated |-> did.updated])
        /\ UNCHANGED <<currentPomodoro, deletedIds>> /\ TasksFrame

\* deleteTask(id): after the delay the entries with the id are filtered out
\* of the list; the table is not touched.
DeleteTask ==
  \E id \in 1 .. MaxTaskId :
    /\ tasks' = SelectSeq(tasks, LAMBDA t : t.id # id)
    /\ deletedIds' = deletedIds \cup {id}
    /\ tasksBefore' = tasks
    /\ Record("deleteTask", id)
    /\ UNCHANGED <<currentPomodoro, dbTasks>> /\ TasksFrame

TasksNext == FetchTasks \/ UpdateTask \/ MarkTask \/ DeleteTask

SpecTasks == StoreInit /\ [][TasksNext]_vars

----------------------------------------------------------------------------
(* Shorthands for the claims *)

Minutes(m) == m * SecondsPerMinute

\* The last step was the interval callback ending a work phase / a break.
WorkJustCompleted  == lastOp = "tick" /\ IsWorking(prev) /\ prev.timeRemaining <= 1
BreakJustCompleted == lastOp = "tick" /\ IsOnBreak(prev) /\ prev.timeRemaining <= 1

----------------------------------------------------------------------------
(* C1, C2: the long-break cycle (SpecCycle, which is also the specification of C6) *)

\* C1: the break entered after the n-th completed work session (counted since
\* the first start, breaks ending by countdown or by skip) is a long break when
\* n > 0 and n % sessionsUntilLongBreak = 0, and a short break otherwise.
C1_LongBreakEveryNthSession ==
  WorkJustCompleted =>
    currentPomodoro.timeRemaining =
      IF completedWork > 0 /\ completedWork % pomodoroSettings.sessionsUntilLongBreak = 0
        THEN Minutes(pomodoroSettings.longBreakDuration)
        ELSE Minutes(pomodoroSettings.shortBreakDuration)

\* C2: with the default settings and every phase running to zero, the break
\* after the 4th completed work phase starts at 900 seconds, and when it has
\* counted down the session is Idle.
C2_FourthBreakIsLong ==
  (pomodoroSettings = DefaultSettings /\ ~breaksSkipped /\ completedWork = 4) =>
    /\ WorkJustCompleted => currentPomodoro.timeRemaining = 900
    /\ BreakJustCompleted => IsIdle(currentPomodoro)

----------------------------------------------------------------------------
(* C3, C8, C9: the store's operations (SpecStore) *)

\* C3: startPomodoro(t) from Idle leaves the session Working, bound to t, with
\* timeRemaining = workDuration * 60.
C3_StartEntersWorking ==
  (lastOp = "startPomodoro" /\ IsIdle(prev)) =>
    /\ IsWorking(currentPomodoro)
    /\ currentPomodoro.sessionId = lastArg
    /\ currentPomodoro.timeRemaining = Minutes(pomodoroSettings.workDuration)

\* A start from Idle after the work duration was changed while Idle.
C3_Witness ==
  /\ lastOp = "startPomodoro" /\ IsIdle(prev)
  /\ lastArg = "t2"
  /\ prev.timeRemaining # currentPomodoro.timeRemaining

\* C8: pausePomodoro directly followed by resumePomodoro, from a Working or
\* break state, gives back exactly the session before the pause.
C8_PauseResumeRoundTrip ==
  (lastOp = "resumePomodoro" /\ pausedFrom # NoSnapshot /\ pausedFrom.active) =>
    currentPomodoro = pausedFrom

\* A break paused in mid-countdown and resumed.
C8_Witness ==
  /\ lastOp = "resumePomodoro" /\ pausedFrom # NoSnapshot /\ pausedFrom.active
  /\ pausedFrom.isBreak
  /\ pausedFrom.sessionId # NoTask
  /\ pausedFrom.timeRemaining < Minutes(pomodoroSettings.shortBreakDuration)
  /\ pausedFrom.currentSessionCount > 0

\* C9: a second pausePomodoro in a row changes nothing.
C9_PauseIdempotent ==
  pauseRun = 2 => currentPomodoro = prev

\* Two pauses in a row, the first one taken on a running break.
C9_Witness ==
  /\ pauseRun = 2
  /\ currentPomodoro.isBreak /\ currentPomodoro.sessionId # NoTask
  /\ ~currentPomodoro.active

----------------------------------------------------------------------------
(* C4 - C7, C10: the component (Spec; C6 under SpecCycle) *)

\* C4: Skip Break during a break leaves the session Idle when
\* autoStartNextSession is false, and Working with a full work countdown when
\* it is true.
C4_SkipBreakFollowsAutoStart ==
  (lastOp = "handleSkipBreak" /\ IsOnBreak(prev)) =>
    IF pomodoroSettings.autoStartNextSession
      THEN /\ IsWorking(currentPomodoro)
           /\ currentPomodoro.timeRemaining = Minutes(pomodoroSettings.workDuration)
      ELSE IsIdle(currentPomodoro)

\* Idle is left only by an explicit start: the Start button or a task selection.
StartOps == {"handleStart", "handleTaskSelect"}
IdleUntilStart == (IsIdle(prev) /\ ~IsIdle(currentPomodoro)) => lastOp \in StartOps

C6_BreakAwaitsConfirmation ==
  (WorkJustCompleted /\ ~pomodoroSettings.autoStartBreaks) => ~currentPomodoro.active

\* C7: stopPomodoro(true, note) during Working hands over an interruption
\* record with the task id, the elapsed seconds and the note, and leaves Idle.
\* (No operation writes a record, so "no note without logInterruption" holds
\* of itself.)
C7_StopLogsInterruption ==
  (lastOp = "handleConfirmStop" /\ IsWorking(prev)) =>
    /\ IsIdle(currentPomodoro)
    /\ \E r \in interruptionRecords :
         /\ r.taskId = prev.sessionId
         /\ r.note = lastArg
         /\ r.elapsedSeconds \in Nat

----------------------------------------------------------------------------
(* C11: the interval against pause and stop (SpecInterval) *)

\* Operations after which the effect clears the interval.
HaltOps == {"handlePause", "handleConfirmStop"}

\* C11: an interval callback set before a pause or a stop and delivered after
\* it, before the effect has cleared the interval, leaves currentPomodoro as
\* it is: no decrement, no completePomodoro, no handleBreakComplete.
C11_StaleTickChangesNothing ==
  (lastOp = "tick" /\ lastArg \in HaltOps) => currentPomodoro = prev

----------------------------------------------------------------------------
(* C12, C13, C15, C16: the store's operations in any state (SpecStore);     *)
(* C14: the session counter under the component (Spec)                      *)

\* Paused: inactive with a task still bound.
IsPaused(cp) == ~cp.active /\ cp.sessionId # NoTask

\* C12: operations called in a phase where they are not valid change nothing:
\* pausePomodoro and skipBreak while Idle, resumePomodoro when not paused,
\* completePomodoro while Idle or in a break.
C12_InvalidOpsAreNoOps ==
  /\ (lastOp \in {"pausePomodoro", "skipBreak"} /\ IsIdle(prev)) =>
       currentPomodoro = prev
  /\ (lastOp = "resumePomodoro" /\ ~IsPaused(prev)) => currentPomodoro = prev
  /\ (lastOp = "completePomodoro" /\ (IsIdle(prev) \/ prev.isBreak)) =>
       currentPomodoro = prev

\* C13: startPomodoro(t2) while a session bound to another task t1 exists
\* (running or paused, not stopped) changes nothing.
C13_StartKeepsOtherSession ==
  (lastOp = "startPomodoro" /\ prev.sessionId \notin {NoTask, lastArg}) =>
    currentPomodoro = prev

\* C14: 0 <= currentSessionCount < sessionsUntilLongBreak in every state, and
\* the counter goes up only in the step that ends a work phase and enters a
\* break, to (count + 1) mod sessionsUntilLongBreak.
C14_SessionCountInRange ==
  /\ currentPomodoro.currentSessionCount \in
       0 .. (pomodoroSettings.sessionsUntilLongBreak - 1)
  /\ currentPomodoro.currentSessionCount > prev.currentSessionCount =>
       /\ WorkJustCompleted
       /\ IsOnBreak(currentPomodoro)
       /\ currentPomodoro.currentSessionCount =
            (prev.currentSessionCount + 1) % pomodoroSettings.sessionsUntilLongBreak

\* C15: stopPomodoro from any state that is not Idle (Working, a break, or
\* paused in either) leaves the session Idle with timeRemaining =
\* workDuration * 60.
C15_StopResetsToIdle ==
  (lastOp = "stopPomodoro" /\ ~IsIdle(prev)) =>
    /\ IsIdle(currentPomodoro)
    /\ currentPomodoro.timeRemaining = Minutes(pomodoroSettings.workDuration)

\* A stop of a paused break, part of its countdown gone, the counter above 0.
C15_Witness ==
  /\ lastOp = "stopPomodoro"
  /\ IsPaused(prev) /\ prev.isBreak
  /\ prev.currentSessionCount > 0
  /\ prev.timeRemaining < Minutes(pomodoroSettings.shortBreakDuration)
  /\ IsIdle(currentPomodoro)

\* C16: updatePomodoroSettings leaves currentPomodoro as it is; a countdown is
\* loaded from the settings only where a phase is entered (start, complete,
\* skipBreak, stop), and pause, resume and the decrement carry it on.
C16_SettingsApplyAtPhaseEntry ==
  /\ lastOp = "updatePomodoroSettings" => currentPomodoro = prev
  /\ lastOp \in {"pausePomodoro", "resumePomodoro"} =>
       currentPomodoro.timeRemaining = prev.timeRemaining
  /\ lastOp = "decrement" =>
       currentPomodoro.timeRemaining = prev.timeRemaining - 1
  /\ lastOp \in {"startPomodoro", "skipBreak", "stopPomodoro"} =>
       currentPomodoro.timeRemaining = Minutes(pomodoroSettings.workDuration)
  /\ lastOp = "completePomodoro" =>
       currentPomodoro.timeRemaining \in
         {Minutes(pomodoroSettings.shortBreakDuration),
          Minutes(pomodoroSettings.longBreakDuration)}

\* The work duration was lowered under a running work phase, whose countdown
\* stays above the new duration.
C16_Witness ==
  /\ lastOp = "updatePomodoroSettings"
  /\ IsWorking(currentPomodoro)
  /\ currentPomodoro.sessionId # NoTask
  /\ currentPomodoro.timeRemaining > Minutes(pomodoroSettings.workDuration)

----------------------------------------------------------------------------
(* C17: the settings form (SpecSettings) *)

\* The number typed is outside lo..hi, and what is stored is the limit nearest to it.
NearestBound(lo, hi, typed, stored) ==
  /\ typed < lo => stored = lo
  /\ typed > hi => stored = hi

\* C17: after a save, whatever was typed (0, nothing, too large a number),
\* workDuration is in 1..120, shortBreakDuration in 1..30, longBreakDuration
\* in 5..60 and sessionsUntilLongBreak in 1..10, and a number typed outside
\* its range has been replaced by the nearest limit.
C17_SaveClampsToNearestBound ==
  lastOp = "handleSave" =>
    /\ pomodoroSettings.workDuration \in MinWorkDuration .. MaxWorkDuration
    /\ pomodoroSettings.shortBreakDuration \in MinShortBreak .. MaxShortBreak
    /\ pomodoroSettings.longBreakDuration \in MinLongBreak .. MaxLongBreak
    /\ pomodoroSettings.sessionsUntilLongBreak \in
         MinSessions .. MaxSessionsUntilLongBreak
    /\ lastArg.workDuration # <<>> =>
         NearestBound(MinWorkDuration, MaxWorkDuration,
                      digitsValue(lastArg.workDuration),
                      pomodoroSettings.workDuration)
    /\ lastArg.shortBreakDuration # <<>> =>
         NearestBound(MinShortBreak, MaxShortBreak,
                      digitsValue(lastArg.shortBreakDuration),
                      pomodoroSettings.shortBreakDuration)
    /\ lastArg.longBreakDuration # <<>> =>
         NearestBound(MinLongBreak, MaxLongBreak,
                      digitsValue(lastArg.longBreakDuration),
                      pomodoroSettings.longBreakDuration)
    /\ lastArg.sessionsUntilLongBreak # <<>> =>
         NearestBound(MinSessions, MaxSessionsUntilLongBreak,
                      digitsValue(lastArg.sessionsUntilLongBreak),
                      pomodoroSettings.sessionsUntilLongBreak)

----------------------------------------------------------------------------
(* C18 - C20: getUserProfile and the cache (SpecProfile) *)

\* The last step was getUserProfile(uid) for a uid with a cache entry.
GotWithEntry == lastOp = "getUserProfile" /\ cacheBefore[1] # NoProfile

\* C18: getUserProfile(uid) with a cache entry whose expiry has not passed
\* returns that entry without a remote fetch; once CACHE_DURATION has gone by
\* since the entry was stored, it makes a remote fetch.
C18_ValidEntryServedExpiredFetched ==
  GotWithEntry =>
    /\ now < cacheBefore[2] =>
         /\ returned = cacheBefore[1]
         /\ fetchOutcome = "none"
    /\ now - cacheBefore[3] >= CACHE_DURATION => fetchOutcome # "none"

\* A get exactly CACHE_DURATION after the entry was stored: the remote
\* profile is fetched and differs from what the cache held.
C18_Witness ==
  /\ GotWithEntry
  /\ now - cacheBefore[3] = CACHE_DURATION
  /\ fetchOutcome = "found"
  /\ returned # cacheBefore[1]
  /\ memoryCache[lastArg] = returned

\* C19: when the remote fetch fails (throws or times out) and the cache holds
\* an entry for the uid, getUserProfile returns that entry, expired or not,
\* and leaves the entry and its expiry as they were.
C19_FailedFetchFallsBackToCache ==
  (GotWithEntry /\ fetchOutcome \in {"throws", "timeout"}) =>
    /\ returned = cacheBefore[1]
    /\ memoryCache[lastArg] = cacheBefore[1]
    /\ cacheExpiry[lastArg] = cacheBefore[2]

\* The fetch timed out on an expired entry that differs from the remote profile.
C19_Witness ==
  /\ GotWithEntry /\ fetchOutcome = "timeout"
  /\ now > cacheBefore[2]
  /\ remoteProfiles[lastArg] \notin {NoProfile, cacheBefore[1]}
  /\ returned = cacheBefore[1]

\* C20: getUserProfile(uid) returns null only when there is neither a cache
\* entry nor a remote profile for the uid; with either, it returns a profile.
C20_NullOnlyWhenNowhere ==
  (lastOp = "getUserProfile" /\ lastArg \in Uids) =>
    (returned = Null <=>
       (cacheBefore[1] = NoProfile /\ remoteProfiles[lastArg] = NoProfile))

----------------------------------------------------------------------------
(* C21: phase entries under the component (Spec) *)

\* The phase the store's fields stand for; Paused is what pausePomodoro and
\* skipBreak leave behind (inactive, a task bound or the break flag set).
Phase(cp) ==
  IF IsIdle(cp) THEN "Idle"
  ELSE IF IsWorking(cp) THEN "Working"
  ELSE IF IsOnBreak(cp) THEN "Break"
  ELSE "Paused"

\* C21: in the step that enters a phase (a resume continues one), the
\* countdown is the duration the settings give that phase at that moment:
\* workDuration * 60 for Working and Idle, shortBreakDuration * 60 or
\* longBreakDuration * 60 for a break.
C21_PhaseEntryLoadsDuration ==
  (Phase(currentPomodoro) # Phase(prev) /\ lastOp \notin ResumeOps) =>
    /\ Phase(currentPomodoro) \in {"Working", "Idle"} =>
         currentPomodoro.timeRemaining = Minutes(pomodoroSettings.workDuration)
    /\ Phase(currentPomodoro) = "Break" =>
         currentPomodoro.timeRemaining \in
           {Minutes(pomodoroSettings.shortBreakDuration),
            Minutes(pomodoroSettings.longBreakDuration)}

\* A work phase that was started with another work duration in force runs out
\* and a long break is entered.
C21_Witness ==
  /\ WorkJustCompleted
  /\ Phase(currentPomodoro) = "Break"
  /\ currentPomodoro.timeRemaining = Minutes(pomodoroSettings.longBreakDuration)
  /\ pomodoroSettings.sessionsUntilLongBreak > 1

----------------------------------------------------------------------------
(* C23, C24: the session and the task it is bound to *)

\* C23: under the component with its interval callback (SpecInterval, a tick
\* of the not yet replaced interval after a stop included), a running session
\* and a break are always bound to a task: active implies sessionId is not
\* null, and isBreak implies sessionId is not null.
C23_RunningSessionHasTask ==
  /\ currentPomodoro.active => currentPomodoro.sessionId # NoTask
  /\ currentPomodoro.isBreak => currentPomodoro.sessionId # NoTask

\* C24: unmounting the timer leaves a session that is counting down at that
\* time as it is; the cleanup calls stopPomodoro only for an inactive one.
C24_UnmountKeepsRunningSession ==
  (lastOp = "unmount" /\ prev.active) => currentPomodoro = prev

----------------------------------------------------------------------------
(* C25: the title shown during a break (SpecCycle) *)

\* C25: while the session is in a break, the title the component shows is
\* the kind of break that was entered: 'Long Break' from the tick that enters
\* a long break until it ends, 'Short Break' during a short one, at every
\* remaining time.
C25_BreakTitleStable ==
  currentPomodoro.isBreak =>
    timerTitle(currentPomodoro, pomodoroSettings) = enteredBreak

----------------------------------------------------------------------------
(* C22, C26, C27, C28: the profile service with calls in flight (SpecCalls) *)

UpdateDone == lastOp \in UpdateKinds

\* C22: updateUserProfile and updateUserSettings end after at most
\* MAX_RETRIES remote write attempts: a call in its loop has made fewer than
\* MAX_RETRIES attempts and its next attempt is due, a call that has returned
\* made between 1 and MAX_RETRIES. A call that ended on a failure other than
\* offline has left the cached profile as it was and has not thrown.
C22_UpdateEndsQuietly ==
  /\ updateCall # NoUpdate => updateCall.retries < MAX_RETRIES
  /\ UpdateDone =>
       /\ lastArg.attempts \in 1 .. MAX_RETRIES
       /\ lastArg.outcome = "error" =>
            /\ ~lastArg.raised
            /\ memoryCache[lastArg.uid] = cacheBefore[1]
            /\ cacheExpiry[lastArg.uid] = cacheBefore[2]

\* An update of a cached profile has ended on a failure that is not offline.
C22_Witness ==
  /\ UpdateDone /\ lastArg.outcome = "error"
  /\ lastArg.attempts = MAX_RETRIES
  /\ memoryCache[lastArg.uid] # NoProfile

\* C26: the uids with a cached profile are the uids with an expiry, in every
\* state, also while calls are waiting.
C26_EntryIffExpiry ==
  \A u \in Uids : (memoryCache[u] # NoProfile) <=> (cacheExpiry[u] # NoExpiry)

\* One uid is cached with its expiry, updated since, and the other is not.
C26_Witness ==
  /\ UpdateDone /\ lastArg.outcome # "error"
  /\ memoryCache[lastArg.uid] # NoProfile
  /\ memoryCache[lastArg.uid] # cacheBefore[1]
  /\ \E u \in Uids : memoryCache[u] = NoProfile /\ cacheExpiry[u] = NoExpiry

\* C27: a getUserProfile whose fetch failed or timed out returns the cache
\* entry as it is when the call returns, an update that wrote the cache
\* during the await included.
C27_FailedFetchReturnsCurrentEntry ==
  (lastOp = "getUserProfile" /\ fetchOutcome \in {"throws", "timeout"}) =>
    returned = memoryCache[lastArg]

\* C28: a step of updateUserProfile or updateUserSettings leaves every expiry
\* as it is, gives no uid an entry that had none, and changes no entry but
\* that of its own uid.
C28_UpdateOnlyMergesEntry ==
  [][updateCall' # updateCall =>
       /\ cacheExpiry' = cacheExpiry
       /\ \A u \in Uids :
            /\ memoryCache[u] = NoProfile => memoryCache'[u] = NoProfile
            /\ memoryCache'[u] # memoryCache[u] =>
                 u \in {updateCall.uid, updateCall'.uid}]_vars

\* An update was written into the one cached entry: with no remote document
\* for an uncached uid, or with the other uid cached as well.
C28_Witness ==
  /\ UpdateDone /\ lastArg.outcome \in {"ok", "offline"}
  /\ memoryCache[lastArg.uid] # cacheBefore[1]
  /\ cacheBefore[1] # NoProfile
  /\ \E u \in Uids : u # lastArg.uid /\ memoryCache[u] # NoProfile

----------------------------------------------------------------------------
(* C29, C30: the task list (SpecTasks) *)

TaskUpdated ==
  /\ lastOp \in {"updateTask", "markTaskAsCompleted", "markTaskAsInProgress"}
  /\ lastArg.updated

\* C29: after an updateTask that succeeded (markTaskAsCompleted and
\* markTaskAsInProgress go through it), the list has a task object for each
\* id it had before, in the same place, every entry is a task, and the entry
\* with the task's id carries the updated completed flag.
C29_UpdateKeepsTaskObjects ==
  TaskUpdated =>
    /\ Len(tasks) = Len(tasksBefore)
    /\ \A i \in DOMAIN tasksBefore :
         tasksBefore[i].isTask =>
           /\ tasks[i].isTask
           /\ tasks[i].id = tasksBefore[i].id
           /\ tasks[i].id = lastArg.id => tasks[i].completed = lastArg.completed

\* C30: a task whose deleteTask has completed is not in the list again,
\* whatever operations follow, a fetchTasks that reloads the table included.
C30_DeletedTaskStaysGone ==
  \A i \in DOMAIN tasks : tasks[i].id \notin deletedIds

====
